---- MODULE Spec2Model ----
(***************************************************************************)
(* Korean Study: the typed-recall quiz (CheckPage), the sentence quiz      *)
(* (SentenceCheckPage), the wrong-items page, the list pages' CSV import   *)
(* and the localStorage records they share, for one scope (category and    *)
(* optional card).                                                         *)
(*                                                                         *)
(* Texts are sequences of one-character strings.  The id arrays of the     *)
(* persisted records are only ever written from Array.from(Set) and only   *)
(* read through new Set(...), so they are held as sets of ids.  React      *)
(* state is the value after the handler's batched updates and the effects  *)
(* they trigger have run to a fixed point.                                 *)
(***************************************************************************)
EXTENDS Integers, Sequences, FiniteSets, TLC

VARIABLES
    category,           \* route category: "vocab" | "grammar" | "sentences"
    now,                \* Date.now()
    store,              \* localStorage entries of the scope
    page,               \* mounted screen: "list" | "wrong" | "check" | "flash"
    wrongItems,         \* WrongItemsPage: wrongItems / wrongSentences (ids)
    items,              \* check page: items
    shuffledDeck,       \* check page: shuffledDeck
    index,              \* check page: index
    learnedIds,         \* CheckPage learnedIds / SentenceCheckPage correctIds
    userInput,          \* check page: userInput
    showResult,         \* check page: showResult
    isCorrect,          \* CheckPage: isCorrect
    comparisonResult,   \* SentenceCheckPage: comparisonResult
    previousWrongInput, \* SentenceCheckPage: previousWrongInput
    isWrongOnlyMode,    \* check page: isWrongOnlyMode
    wrongIds,           \* check page: wrongIds
    timers,             \* SentenceCheckPage: pending setTimeout callbacks
    tabs,               \* a second tab on the scope, and who recorded what
    masteredAt,         \* per mastery key and id: Date.now() of the last
                        \* correct answer recorded for it (0: none)
    last                \* the operation that produced this state

vars == <<category, now, store, page, wrongItems, items, shuffledDeck, index,
          learnedIds, userInput, showResult, isCorrect, comparisonResult,
          previousWrongInput, isWrongOnlyMode, wrongIds, timers, tabs,
          masteredAt, last>>

session == <<items, shuffledDeck, index, learnedIds, userInput, showResult,
             isCorrect, comparisonResult, previousWrongInput,
             isWrongOnlyMode, wrongIds, timers>>

----------------------------------------------------------------------------
(* Bounds *)

\* items in a vocabulary or grammar deck
MaxDeck == 3

\* items in a sentence deck
MaxSentences == 2

\* items in a deck of the ledger behaviours, in which time passes
MaxLedgerDeck == 2

\* items in a deck of the import behaviours
MaxImportDeck == 2

\* milliseconds the clock can pass beyond 8 hours
MaxSlack == 1

\* items in a deck of the answering behaviours
MaxOrderDeck == 3

\* characters in a stored answer and in a typed input
MaxText == 3

\* items in each of the two cards of a category
MaxCardDeck == 2

\* cards of the flashcard deck
MaxFlashDeck == 2

\* items of the deck two tabs answer on
MaxTabDeck == 2

\* answers of each kind that the other tab records
MaxTabSaves == 1

\* items of a deck answered while time passes
MaxAgingDeck == 2

----------------------------------------------------------------------------
(* Program constants *)

EIGHT_HOURS_MS == 8 * 60 * 60 * 1000

Categories == {"vocab", "grammar", "sentences"}

Max(a, b) == IF a >= b THEN a ELSE b

DeckBound(cat) == IF cat = "sentences" THEN MaxSentences ELSE MaxDeck

Ids ==
    1 .. Max(Max(Max(MaxDeck, MaxSentences), Max(MaxLedgerDeck, MaxImportDeck)),
             Max(Max(MaxOrderDeck, MaxFlashDeck),
                 Max(MaxCardDeck, Max(MaxTabDeck, MaxAgingDeck))))

----------------------------------------------------------------------------
(* Text *)

toLowerCaseChar(c) ==
    CASE c = "A" -> "a"
      [] c = "B" -> "b"
      [] c = "C" -> "c"
      [] OTHER -> c

toLowerCase(s) == [i \in 1 .. Len(s) |-> toLowerCaseChar(s[i])]

isSpace(c) == c = " "

RECURSIVE trimStart(_)
trimStart(s) ==
    IF s # <<>> /\ isSpace(Head(s)) THEN trimStart(Tail(s)) ELSE s

RECURSIVE trimEnd(_)
trimEnd(s) ==
    IF s # <<>> /\ isSpace(s[Len(s)])
    THEN trimEnd(SubSeq(s, 1, Len(s) - 1))
    ELSE s

trim(s) == trimEnd(trimStart(s))

isPunctuation(c) == c \in {".", ",", "!", "?", ";", ":"}

replacePunctuation(s) ==
    [i \in 1 .. Len(s) |-> IF isPunctuation(s[i]) THEN " " ELSE s[i]]

\* String.prototype.split(/\s+/): the pieces between maximal whitespace runs
RECURSIVE splitOnSpaces(_, _, _, _)
splitOnSpaces(s, cur, acc, inRun) ==
    IF s = <<>> THEN Append(acc, cur)
    ELSE IF isSpace(Head(s))
         THEN IF inRun
              THEN splitOnSpaces(Tail(s), cur, acc, TRUE)
              ELSE splitOnSpaces(Tail(s), <<>>, Append(acc, cur), TRUE)
         ELSE splitOnSpaces(Tail(s), Append(cur, Head(s)), acc, FALSE)

splitKoreanWords(sentence) ==
    LET cleaned == trim(replacePunctuation(sentence))
    IN  SelectSeq(splitOnSpaces(cleaned, <<>>, <<>>, FALSE),
                  LAMBDA w : Len(w) > 0)

\* compareSentences that marks a word correct wherever the sentence has it
compareSentencesAnyPosition(input, correctSentence) ==
    LET userWords == splitKoreanWords(input)
        correctWords == splitKoreanWords(correctSentence)
        maxLen == Max(Len(userWords), Len(correctWords))
    IN  [i \in 1 .. maxLen |->
            IF i <= Len(userWords)
            THEN [word |-> userWords[i],
                  isCorrect |-> \E j \in 1 .. Len(correctWords) :
                      toLowerCase(trim(userWords[i]))
                          = toLowerCase(trim(correctWords[j]))]
            ELSE [word |-> <<>>, isCorrect |-> FALSE]]

compareSentences(input, correctSentence) ==
    LET userWords == splitKoreanWords(input)
        correctWords == splitKoreanWords(correctSentence)
        maxLen == Max(Len(userWords), Len(correctWords))
        wordAt(ws, i) == IF i <= Len(ws) THEN ws[i] ELSE <<>>
    IN  [i \in 1 .. maxLen |->
            IF i <= Len(userWords)
            THEN [word |-> wordAt(userWords, i),
                  isCorrect |-> toLowerCase(trim(wordAt(userWords, i)))
                                = toLowerCase(trim(wordAt(correctWords, i)))]
            ELSE [word |-> <<>>, isCorrect |-> FALSE]]

\* allCorrect without the test for at least one position
allCorrectOrEmpty(comparison) ==
    \A i \in 1 .. Len(comparison) : comparison[i].isCorrect

allCorrect(comparison) ==
    /\ Len(comparison) > 0
    /\ \A i \in 1 .. Len(comparison) : comparison[i].isCorrect

----------------------------------------------------------------------------
(* Items *)

koreanOf(k) ==
    CASE k = 1 -> <<"a">>
      [] k = 2 -> <<"B">>
      [] OTHER -> <<"c">>

sentenceOf(k) ==
    CASE k = 1 -> <<"a", " ", "b">>
      [] k = 2 -> <<"B", ".">>
      [] OTHER -> <<"c">>

StudyItem(k, ko) ==
    [id |-> k, korean |-> ko, vietnamese |-> <<"v">>, english |-> <<>>]

SentenceItem(k, se) ==
    [id |-> k, sentence |-> se, vietnamese |-> <<"v">>,
     vocabulary |-> <<>>, grammar |-> <<>>]

ItemOf(cat, k) ==
    IF cat = "sentences" THEN SentenceItem(k, sentenceOf(k))
    ELSE StudyItem(k, koreanOf(k))

\* the same row with its answer column edited
EditedItemOf(cat, k) ==
    IF cat = "sentences" THEN SentenceItem(k, <<"z">>)
    ELSE StudyItem(k, <<"z">>)

\* `current` when the filtered deck is empty
undefined == [id |-> 0]

answerOf(cat, item) ==
    IF cat = "sentences" THEN item.sentence ELSE item.korean

\* what the user types for the presented item: a wrong text, or the answer
\* in lower case behind a blank
TypedFor(cat, item) ==
    {<<"z">>, <<" ">> \o toLowerCase(answerOf(cat, item))}

IdsOf(seq) == {seq[i].id : i \in 1 .. Len(seq)}

Orderings(S) ==
    {p \in [1 .. Cardinality(S) -> S] :
        \A i, j \in 1 .. Cardinality(S) : i # j => p[i] # p[j]}

Range(seq) == {seq[i] : i \in 1 .. Len(seq)}

\* [...deckAll].sort(() => Math.random() - 0.5): some permutation of deckAll
Shuffles(deckAll) == Orderings(Range(deckAll))

----------------------------------------------------------------------------
(* localStorage records *)

Absent == [t |-> "absent", ids |-> {}, savedAt |-> 0]

\* JSON of a bare array of ids
LegacyArray(ids) == [t |-> "array", ids |-> ids, savedAt |-> 0]

\* JSON of { ids, savedAt }
Timestamped(ids, at) == [t |-> "object", ids |-> ids, savedAt |-> at]

\* a value that JSON.parse rejects
Invalid == [t |-> "invalid", ids |-> {}, savedAt |-> 0]

\* JSON of { ids } with no savedAt
NoSavedAt(ids) == [t |-> "nosavedat", ids |-> ids, savedAt |-> 0]

\* JSON of { savedAt } with no ids
NoIds(at) == [t |-> "noids", ids |-> {}, savedAt |-> at]

\* Expired with the 8 hours themselves counted as expired
ExpiredAtEightHours(rec, time) ==
    rec.savedAt = 0 \/ time - rec.savedAt >= EIGHT_HOURS_MS

Expired(rec, time) == rec.savedAt = 0 \/ time - rec.savedAt > EIGHT_HOURS_MS

\* CheckPage learnedIds initialiser and loadCorrectSentences: the id set and
\* the record left under the key
loadLearned(rec, time) ==
    IF rec.t \in {"absent", "invalid"} THEN [ret |-> {}, rec |-> rec]
    ELSE IF rec.t # "object" \/ Expired(rec, time)
         THEN [ret |-> {}, rec |-> Absent]
         ELSE [ret |-> rec.ids, rec |-> rec]

\* loadWrongIds that returns a legacy array without rewriting it
loadWrongIdsUnmigrated(rec, time) ==
    IF rec.t \in {"absent", "invalid", "nosavedat"}
    THEN [ret |-> {}, rec |-> rec]
    ELSE IF rec.t \in {"object", "noids"}
         THEN IF Expired(rec, time)
              THEN [ret |-> {}, rec |-> Absent]
              ELSE [ret |-> rec.ids, rec |-> rec]
         ELSE [ret |-> rec.ids, rec |-> rec]

\* an object without savedAt and a value that does not parse fall through
\* to the final return; new Set(undefined) of an object without ids is empty
loadWrongIds(rec, time) ==
    IF rec.t \in {"absent", "invalid", "nosavedat"}
    THEN [ret |-> {}, rec |-> rec]
    ELSE IF rec.t \in {"object", "noids"}
         THEN IF Expired(rec, time)
              THEN [ret |-> {}, rec |-> Absent]
              ELSE [ret |-> rec.ids, rec |-> rec]
         ELSE [ret |-> rec.ids, rec |-> Timestamped(rec.ids, time)]

saveWrongIds(ids, time) == Timestamped(ids, time)

\* new Set(JSON.parse(raw) as string[]) inside try/catch: an object is not
\* iterable, the TypeError is caught
parseWrongArray(rec) ==
    IF rec.t = "array" THEN [ok |-> TRUE, ret |-> rec.ids]
    ELSE IF rec.t = "absent" THEN [ok |-> TRUE, ret |-> {}]
    ELSE [ok |-> FALSE, ret |-> {}]

\* CheckPage wrongIds memo
checkPageWrongIds(wrongOnly, rec) ==
    IF ~wrongOnly THEN {} ELSE parseWrongArray(rec).ret

\* the wrong-key write that keeps only the item just answered
checkPageSaveWrongOnlyLast(rec, curId) ==
    IF parseWrongArray(rec).ok THEN LegacyArray({curId}) ELSE rec

\* CheckPage.nextQuestion: the wrong-key write of a wrong answer
checkPageSaveWrong(rec, curId) ==
    LET parsed == parseWrongArray(rec)
    IN  IF parsed.ok THEN LegacyArray(parsed.ret \cup {curId}) ELSE rec

saveCorrectSentence(rec, sentenceId, time) ==
    Timestamped(loadLearned(rec, time).ret \cup {sentenceId}, time)

\* store fields: items (the deck key), check and checkWrong (the mastery
\* keys of normal and wrong-only mode), wrongOnly (the mode flag), wrong,
\* history (sentence-input-history per id; <<>> stands for no entry),
\* flashcards (the known cards of the flashcard modal), other (the same keys
\* of another card of the category)
\* one mastery key for both modes
masteryKeyShared(wrongOnly) == "check"

masteryKey(wrongOnly) == IF wrongOnly THEN "checkWrong" ELSE "check"

clearFlashcardStorage(st) == [st EXCEPT !.flashcards = Absent]

clearCheckStorage(st) ==
    [st EXCEPT !.check = Absent, !.checkWrong = Absent, !.wrongOnly = FALSE]

clearWrongItemsStorage(st) == [st EXCEPT !.wrong = Absent]

areItemsDifferent(current, imported) ==
    \/ Len(current) # Len(imported)
    \/ \E i \in 1 .. Len(current) : current[i].id \notin IdsOf(imported)
    \/ \E i \in 1 .. Len(imported) : imported[i].id \notin IdsOf(current)
    \/ \E i \in 1 .. Len(current), j \in 1 .. Len(imported) :
          /\ current[i].id = imported[j].id
          /\ \E key \in DOMAIN current[i] : current[i][key] # imported[j][key]

\* Map.set that moves a key it replaces to the end
mapSetMovingToEnd(values, row) ==
    Append(SelectSeq(values, LAMBDA i : i.id # row.id), row)

\* map.set(i.id, i) as seen through Array.from(map.values()): the value of
\* a key that is present is replaced where it is, a new key goes last
mapSet(values, row) ==
    IF row.id \in IdsOf(values)
    THEN [i \in 1 .. Len(values) |->
            IF values[i].id = row.id THEN row ELSE values[i]]
    ELSE Append(values, row)

\* new Map over [...prev, ...newItems], then Array.from(map.values())
RECURSIVE mergeById(_, _)
mergeById(prev, newItems) ==
    IF newItems = <<>> THEN prev
    ELSE mergeById(mapSet(prev, Head(newItems)), Tail(newItems))

----------------------------------------------------------------------------
(* Rendering *)

\* the deck with its mastered items left in
deckOfUnfiltered(sd, learned) == sd

\* deck: shuffledDeck.filter(i => !learnedIds.has(i.id))
deckOf(sd, learned) == SelectSeq(sd, LAMBDA i : i.id \notin learned)

deck == deckOf(shuffledDeck, learnedIds)

\* CheckPage: deck[index] ?? deck[deck.length - 1]
checkCurrent(dk, idx) ==
    IF idx < Len(dk) THEN dk[idx + 1]
    ELSE IF Len(dk) > 0 THEN dk[Len(dk)] ELSE undefined

\* SentenceCheckPage: deck[index]
sentenceCurrent(dk, idx) ==
    IF idx < Len(dk) THEN dk[idx + 1] ELSE undefined

currentOf(dk, idx) ==
    IF category = "sentences" THEN sentenceCurrent(dk, idx)
    ELSE checkCurrent(dk, idx)

current == currentOf(deck, index)

\* the index as the handler left it, with no bounds effect
boundedIndexUnchecked(dk, idx) == idx

\* the bounds effect: setIndex(0) when the deck is empty or index is past it
boundedIndex(dk, idx) == IF Len(dk) = 0 \/ idx >= Len(dk) THEN 0 ELSE idx

\* CheckPage after a handler left (sd, idx, learned, ui, sr, ic): the bounds
\* effect and the reset-on-current-change effect, run until nothing changes.
\* prev is `current` of the last commit.
checkEffects(prev, sd, idx, learned, ui, sr, ic) ==
    LET dk == deckOf(sd, learned)
        cur1 == checkCurrent(dk, idx)
        idx2 == boundedIndex(dk, idx)
        cur2 == checkCurrent(dk, idx2)
        reset == cur1 # prev \/ cur2 # cur1
    IN  [index |-> idx2,
         userInput |-> IF reset THEN <<>> ELSE ui,
         showResult |-> IF reset THEN FALSE ELSE sr,
         isCorrect |-> IF reset THEN FALSE ELSE ic]

\* saveInputHistory that stores the input trimmed
saveInputHistoryTrimmed(st, sentenceId, input) ==
    [st EXCEPT !.history[sentenceId] = trim(input)]

\* localStorage.setItem(historyKey, input)
saveInputHistory(st, sentenceId, input) ==
    [st EXCEPT !.history[sentenceId] = input]

\* localStorage.removeItem(historyKey)
removeInputHistory(st, sentenceId) ==
    [st EXCEPT !.history[sentenceId] = <<>>]

\* loadInputHistory and the preview decision of the load-previous effect
previousInputOf(st, item) ==
    LET previousInput == st.history[item.id]
    IN  IF previousInput # <<>>
           /\ ~allCorrect(compareSentences(previousInput, item.sentence))
        THEN previousInput ELSE <<>>

\* SentenceCheckPage after a handler left (sd1, idx1, learned, ...): the
\* load-previous effect runs for the render of (sd1, idx1) and again for the
\* render of (sd2, idx2) that the deck-initialisation or bounds effect causes
sentenceEffects(prev, sd1, idx1, sd2, idx2, learned, st, ui, sr, cr, pwi) ==
    LET cur1 == sentenceCurrent(deckOf(sd1, learned), idx1)
        cur2 == sentenceCurrent(deckOf(sd2, learned), idx2)
        shown == IF cur2 # undefined /\ cur2 # cur1 THEN cur2
                 ELSE IF cur1 # undefined /\ cur1 # prev THEN cur1
                 ELSE undefined
        reset == shown # undefined
    IN  [userInput |-> IF reset THEN <<>> ELSE ui,
         showResult |-> IF reset THEN FALSE ELSE sr,
         comparisonResult |-> IF reset THEN <<>> ELSE cr,
         previousWrongInput |-> IF reset THEN previousInputOf(st, shown)
                                ELSE pwi]

----------------------------------------------------------------------------
(* A second tab *)

\* open: a check page of the scope is open in another tab; learned: its
\* learnedIds / correctIds; wrong: the ids it has recorded as wrong; own:
\* the ids this tab has recorded as wrong while the other tab is open
NoTabs == [open |-> FALSE, learned |-> {}, wrong |-> {}, own |-> {}]

\* this tab records a wrong answer
recordOwn(t, id) == IF t.open THEN [t EXCEPT !.own = @ \cup {id}] ELSE t

----------------------------------------------------------------------------
(* When items were mastered *)

\* the times that the mastery records of st stand for: a record is written
\* with Date.now() of the correct answer that it records
MasteredAtOf(st) ==
    [key \in {"check", "checkWrong"} |->
        [k \in Ids |-> IF st[key].t = "object" /\ k \in st[key].ids
                       THEN st[key].savedAt ELSE 0]]

\* a correct answer to id is recorded under key at time
recordMastered(m, key, id, time) == [m EXCEPT ![key][id] = time]

----------------------------------------------------------------------------
(* The operation record *)

Op(name) ==
    [op |-> name,
     id |-> IF page = "check" THEN current.id ELSE 0,
     len |-> IF page = "check" THEN Len(deck) ELSE 0,
     index |-> index,
     input |-> userInput,
     answered |-> showResult,
     correct |-> IF category = "sentences" THEN allCorrect(comparisonResult)
                 ELSE isCorrect,
     mastery |-> store[masteryKey(store.wrongOnly)],
     wrong |-> store.wrong,
     ret |-> {}]

Unmounted ==
    /\ items' = <<>>
    /\ shuffledDeck' = <<>>
    /\ index' = 0
    /\ learnedIds' = {}
    /\ userInput' = <<>>
    /\ showResult' = FALSE
    /\ isCorrect' = FALSE
    /\ comparisonResult' = <<>>
    /\ previousWrongInput' = <<>>
    /\ isWrongOnlyMode' = FALSE
    /\ wrongIds' = {}
    /\ timers' = <<>>

----------------------------------------------------------------------------
(* Mounting the check pages *)

\* CheckPage: the learnedIds initialiser, the wrongIds memo and the deck
\* initialisation effect, on the storage st that navigation left
mountCheckPage(st, name) ==
    LET wrongOnly == st.wrongOnly
        key == masteryKey(wrongOnly)
        loaded == loadLearned(st[key], now)
        st2 == [st EXCEPT ![key] = loaded.rec]
        wrong == checkPageWrongIds(wrongOnly, st2.wrong)
        drillable == SelectSeq(st2.items,
                        LAMBDA i : i.korean # <<>> \/ i.vietnamese # <<>>
                                   \/ i.english # <<>>)
        deckAll == IF wrongOnly
                   THEN SelectSeq(drillable, LAMBDA i : i.id \in wrong)
                   ELSE drillable
    IN  /\ store' = st2
        /\ items' = st2.items
        /\ learnedIds' = loaded.ret
        /\ isWrongOnlyMode' = wrongOnly
        /\ wrongIds' = wrong
        /\ shuffledDeck' \in Shuffles(deckAll)
        /\ index' = 0
        /\ userInput' = <<>>
        /\ showResult' = FALSE
        /\ isCorrect' = FALSE
        /\ comparisonResult' = <<>>
        /\ previousWrongInput' = <<>>
        /\ timers' = <<>>
        /\ last' = [Op(name) EXCEPT !.mastery = st[key], !.wrong = st.wrong,
                                     !.ret = loaded.ret]

\* SentenceCheckPage: loadCorrectSentences, the wrongIds memo (loadWrongIds),
\* the deck initialisation effect and the load-previous effect
mountSentenceCheckPage(st, name) ==
    LET wrongOnly == st.wrongOnly
        key == masteryKey(wrongOnly)
        loaded == loadLearned(st[key], now)
        st2 == [st EXCEPT ![key] = loaded.rec]
        wrong == IF wrongOnly THEN loadWrongIds(st2.wrong, now)
                 ELSE [ret |-> {}, rec |-> st2.wrong]
        st3 == [st2 EXCEPT !.wrong = wrong.rec]
        unanswered == SelectSeq(st3.items,
                        LAMBDA i : i.sentence # <<>> /\ i.id \notin loaded.ret)
        deckAll == IF wrongOnly
                   THEN SelectSeq(unanswered, LAMBDA i : i.id \in wrong.ret)
                   ELSE unanswered
    IN  /\ store' = st3
        /\ items' = st3.items
        /\ learnedIds' = loaded.ret
        /\ isWrongOnlyMode' = wrongOnly
        /\ wrongIds' = wrong.ret
        /\ shuffledDeck' \in Shuffles(deckAll)
        /\ index' = 0
        /\ userInput' = <<>>
        /\ showResult' = FALSE
        /\ isCorrect' = FALSE
        /\ comparisonResult' = <<>>
        /\ previousWrongInput' =
              IF shuffledDeck' = <<>> THEN <<>>
              ELSE previousInputOf(st3, shuffledDeck'[1])
        /\ timers' = <<>>
        /\ last' = [Op(name) EXCEPT !.mastery = st[key], !.wrong = st.wrong,
                                     !.ret = loaded.ret]

mountCheck(st, name) ==
    IF category = "sentences" THEN mountSentenceCheckPage(st, name)
    ELSE mountCheckPage(st, name)

----------------------------------------------------------------------------
(* Navigation *)

\* the list page's check button: ListPage removes the wrong-only flag before
\* it navigates, SentenceListPage only navigates
ListCheck ==
    /\ page = "list"
    /\ page' = "check"
    /\ mountCheck(IF category = "sentences" THEN store
                  ELSE [store EXCEPT !.wrongOnly = FALSE], "ListCheck")
    /\ UNCHANGED <<category, tabs, masteredAt, now, wrongItems>>

\* the list page's wrong-items button: WrongItemsPage mounts and loads
ListWrong ==
    /\ page = "list"
    /\ page' = "wrong"
    /\ LET loaded == loadWrongIds(store.wrong, now)
       IN  /\ store' = [store EXCEPT !.wrong = loaded.rec]
           /\ wrongItems' = {i \in IdsOf(store.items) : i \in loaded.ret}
    /\ last' = [Op("ListWrong") EXCEPT
                   !.ret = loadWrongIds(store.wrong, now).ret]
    /\ UNCHANGED <<category, tabs, masteredAt, now>>
    /\ UNCHANGED session

\* WrongItemsPage.handleCheck (its button is disabled when wrongCount is 0)
handleCheck ==
    /\ page = "wrong"
    /\ wrongItems # {}
    /\ page' = "check"
    /\ mountCheck([store EXCEPT !.wrongOnly = TRUE], "handleCheck")
    /\ wrongItems' = {}
    /\ UNCHANGED <<category, tabs, masteredAt, now>>

WrongBack ==
    /\ page = "wrong"
    /\ page' = "list"
    /\ wrongItems' = {}
    /\ last' = Op("WrongBack")
    /\ UNCHANGED <<category, tabs, masteredAt, now, store>>
    /\ UNCHANGED session

\* the check pages' back button: CheckPage removes the wrong-only flag in
\* wrong-only mode; SentenceCheckPage does so only on its empty and
\* completion screens
CheckBack ==
    /\ page = "check"
    /\ page' = "list"
    /\ store' = IF isWrongOnlyMode
                   /\ (category # "sentences" \/ current = undefined)
                THEN [store EXCEPT !.wrongOnly = FALSE]
                ELSE store
    /\ Unmounted
    /\ last' = Op("CheckBack")
    /\ UNCHANGED <<category, tabs, masteredAt, now, wrongItems>>

----------------------------------------------------------------------------
(* CheckPage operations *)

\* the answer field's onChange (the field is disabled while the result shows)
setUserInput ==
    /\ page = "check"
    /\ current # undefined
    /\ ~showResult
    /\ \E text \in TypedFor(category, current) : userInput' = text
    /\ last' = Op("setUserInput")
    /\ UNCHANGED <<category, tabs, masteredAt, now, store, page, wrongItems, items,
                   shuffledDeck, index, learnedIds, showResult, isCorrect,
                   comparisonResult, previousWrongInput, isWrongOnlyMode,
                   wrongIds, timers>>

\* userInput.trim().toLowerCase() === current.korean.toLowerCase()
checkVocabulary(input, item) ==
    toLowerCase(trim(input)) = toLowerCase(item.korean)

\* checkAnswer that shows a result when there is no current item
judgeAlways(cur, input, sr, ic) ==
    [isCorrect |-> cur # undefined /\ checkVocabulary(input, cur),
     showResult |-> TRUE]

\* CheckPage.checkAnswer: if (!current) return; else the judgement is shown
judge(cur, input, sr, ic) ==
    IF cur = undefined THEN [isCorrect |-> ic, showResult |-> sr]
    ELSE [isCorrect |-> checkVocabulary(input, cur), showResult |-> TRUE]

\* the handler, whatever the screen shows
CheckPage_checkAnswerCall ==
    /\ page = "check"
    /\ category # "sentences"
    /\ isCorrect' = judge(current, userInput, showResult, isCorrect).isCorrect
    /\ showResult' = judge(current, userInput, showResult,
                           isCorrect).showResult
    /\ last' = [Op("checkAnswer") EXCEPT
                   !.correct = judge(current, userInput, showResult,
                                     isCorrect).isCorrect]
    /\ UNCHANGED <<category, tabs, masteredAt, now, store, page, wrongItems, items,
                   shuffledDeck, index, learnedIds, userInput,
                   comparisonResult, previousWrongInput, isWrongOnlyMode,
                   wrongIds, timers>>

\* the Check button (disabled without a current item, replaced by the
\* Next-question button while the result shows) and Enter in the field
CheckPage_checkAnswer ==
    /\ current # undefined
    /\ ~showResult
    /\ CheckPage_checkAnswerCall

\* setIndex(prev => (prev + 1) % len)
goNextIndex(idx, len) == IF len = 0 THEN idx ELSE (idx + 1) % len

\* setIndex(prev => (prev - 1 + len) % len), not from index 0
goPrevIndex(idx, len) ==
    IF len = 0 \/ idx = 0 THEN idx ELSE (idx - 1 + len) % len

\* commit a CheckPage handler's updates and run the effects
checkCommit(sd, idx, learned, ui, sr, ic) ==
    LET after == checkEffects(current, sd, idx, learned, ui, sr, ic)
    IN  /\ shuffledDeck' = sd
        /\ learnedIds' = learned
        /\ index' = after.index
        /\ userInput' = after.userInput
        /\ showResult' = after.showResult
        /\ isCorrect' = after.isCorrect

\* CheckPage.goNext, whatever the screen shows
CheckPage_goNextCall ==
    /\ page = "check"
    /\ category # "sentences"
    /\ checkCommit(shuffledDeck, goNextIndex(index, Len(deck)), learnedIds,
                   userInput, showResult, isCorrect)
    /\ last' = Op("goNext")
    /\ UNCHANGED <<category, tabs, masteredAt, now, store, page, wrongItems, items,
                   comparisonResult, previousWrongInput, isWrongOnlyMode,
                   wrongIds, timers>>

\* the Next button (disabled on a deck of at most one item and at the end)
CheckPage_goNext ==
    /\ Len(deck) > 1
    /\ index # Len(deck) - 1
    /\ CheckPage_goNextCall

\* CheckPage.goPrev, whatever the screen shows
CheckPage_goPrevCall ==
    /\ page = "check"
    /\ category # "sentences"
    /\ checkCommit(shuffledDeck, goPrevIndex(index, Len(deck)), learnedIds,
                   userInput, showResult, isCorrect)
    /\ last' = Op("goPrev")
    /\ UNCHANGED <<category, tabs, masteredAt, now, store, page, wrongItems, items,
                   comparisonResult, previousWrongInput, isWrongOnlyMode,
                   wrongIds, timers>>

\* the Previous button (disabled on a deck of at most one item and at 0)
CheckPage_goPrev ==
    /\ Len(deck) > 1
    /\ index # 0
    /\ CheckPage_goPrevCall

\* the splice without the push
requeueDropping(sd, curId) == SelectSeq(sd, LAMBDA i : i.id # curId)

\* newDeck.splice(idxInShuffled, 1); newDeck.push(currentItem)
requeue(sd, curId) ==
    SelectSeq(sd, LAMBDA i : i.id # curId)
        \o SelectSeq(sd, LAMBDA i : i.id = curId)

\* afterWrongAnswer without the one-item case
afterWrongAnswerAlwaysNext(idx, len, ui, sr, ic) ==
    [index |-> goNextIndex(idx, len), userInput |-> ui, showResult |-> sr,
     isCorrect |-> ic]

\* nextQuestion after a wrong answer: on a one-item deck the index is kept
\* and the result hidden for the next attempt, otherwise goNext()
afterWrongAnswer(idx, len, ui, sr, ic) ==
    IF len = 1
    THEN [index |-> idx, userInput |-> <<>>, showResult |-> FALSE,
          isCorrect |-> FALSE]
    ELSE [index |-> goNextIndex(idx, len), userInput |-> ui,
          showResult |-> sr, isCorrect |-> ic]

\* nextQuestion: the Next-question button and Enter while the result shows
nextQuestion ==
    /\ page = "check"
    /\ category # "sentences"
    /\ showResult
    /\ Len(deck) > 0
    /\ LET curId == current.id
           key == masteryKey(isWrongOnlyMode)
       IN  IF isCorrect
           THEN /\ store' = [store EXCEPT
                      ![key] = Timestamped(learnedIds \cup {curId}, now)]
                /\ checkCommit(shuffledDeck, goNextIndex(index, Len(deck)),
                               learnedIds \cup {curId},
                               userInput, showResult, isCorrect)
           ELSE /\ store' = [store EXCEPT
                      !.wrong = checkPageSaveWrong(store.wrong, curId)]
                /\ LET set == afterWrongAnswer(index, Len(deck), userInput,
                                               showResult, isCorrect)
                   IN  checkCommit(requeue(shuffledDeck, curId), set.index,
                                   learnedIds, set.userInput, set.showResult,
                                   set.isCorrect)
    /\ tabs' = IF isCorrect THEN tabs ELSE recordOwn(tabs, current.id)
    /\ masteredAt' = IF isCorrect
                      THEN recordMastered(masteredAt,
                               masteryKey(isWrongOnlyMode), current.id, now)
                      ELSE masteredAt
    /\ last' = Op("nextQuestion")
    /\ UNCHANGED <<category, now, page, wrongItems, items, comparisonResult,
                   previousWrongInput, isWrongOnlyMode, wrongIds, timers>>

----------------------------------------------------------------------------
(* SentenceCheckPage operations *)

\* goNext / goPrev towards target: when the index would not move while the
\* result shows, the result is hidden instead
sentenceGo(target, idx, ui, sr, cr) ==
    IF target = idx /\ sr
    THEN [index |-> idx, userInput |-> <<>>, showResult |-> FALSE,
          comparisonResult |-> <<>>]
    ELSE [index |-> target, userInput |-> ui, showResult |-> sr,
          comparisonResult |-> cr]

\* if (len === 0) return
sentenceGoNext(idx, len, ui, sr, cr) ==
    IF len = 0
    THEN [index |-> idx, userInput |-> ui, showResult |-> sr,
          comparisonResult |-> cr]
    ELSE sentenceGo((idx + 1) % len, idx, ui, sr, cr)

\* goPrev that stays at the first position
sentenceGoPrevNoWrap(idx, len, ui, sr, cr) ==
    sentenceGo(IF idx = 0 THEN 0 ELSE idx - 1, idx, ui, sr, cr)

sentenceGoPrev(idx, len, ui, sr, cr) ==
    IF len = 0
    THEN [index |-> idx, userInput |-> ui, showResult |-> sr,
          comparisonResult |-> cr]
    ELSE sentenceGo((idx - 1 + len) % len, idx, ui, sr, cr)

\* commit a SentenceCheckPage handler's updates that leave correctIds alone
\* and run the bounds and load-previous effects
sentenceCommit(set) ==
    LET idx2 == boundedIndex(deck, set.index)
        after == sentenceEffects(current, shuffledDeck, set.index,
                                 shuffledDeck, idx2, learnedIds, store',
                                 set.userInput, set.showResult,
                                 set.comparisonResult, previousWrongInput)
    IN  /\ index' = idx2
        /\ userInput' = after.userInput
        /\ showResult' = after.showResult
        /\ comparisonResult' = after.comparisonResult
        /\ previousWrongInput' = after.previousWrongInput

\* SentenceCheckPage.goNext, whatever the screen shows
Sentence_goNextCall ==
    /\ page = "check"
    /\ category = "sentences"
    /\ store' = store
    /\ sentenceCommit(sentenceGoNext(index, Len(deck), userInput, showResult,
                                     comparisonResult))
    /\ last' = Op("goNext")
    /\ UNCHANGED <<category, tabs, masteredAt, now, page, wrongItems, items, shuffledDeck,
                   learnedIds, isCorrect, isWrongOnlyMode, wrongIds, timers>>

\* the Next button and Enter while the result shows
Sentence_goNext ==
    /\ showResult
    /\ current # undefined
    /\ Sentence_goNextCall

\* SentenceCheckPage.goPrev, whatever the screen shows
Sentence_goPrevCall ==
    /\ page = "check"
    /\ category = "sentences"
    /\ store' = store
    /\ sentenceCommit(sentenceGoPrev(index, Len(deck), userInput, showResult,
                                     comparisonResult))
    /\ last' = Op("goPrev")
    /\ UNCHANGED <<category, tabs, masteredAt, now, page, wrongItems, items, shuffledDeck,
                   learnedIds, isCorrect, isWrongOnlyMode, wrongIds, timers>>

\* the Previous button, shown with the result
Sentence_goPrev ==
    /\ showResult
    /\ current # undefined
    /\ Sentence_goPrevCall

\* the callback of setTimeout(..., 1000) in checkAnswer: goNext() of the
\* render that scheduled it while an unanswered sentence is left, else hide
\* the result
autoAdvance(idx, len, newCorrectIds) ==
    [goNext |-> \E i \in 1 .. Len(items) :
                    items[i].sentence # <<>> /\ items[i].id \notin newCorrectIds,
     nextIndex |-> (idx + 1) % len]

\* SentenceCheckPage.checkAnswer on the current item
Sentence_checkAnswerOn ==
    /\ LET comparison == compareSentences(userInput, current.sentence)
           key == masteryKey(isWrongOnlyMode)
       IN  IF allCorrect(comparison)
           THEN LET newCorrectIds == learnedIds \cup {current.id}
                    unanswered == SelectSeq(items, LAMBDA i :
                        i.sentence # <<>> /\ i.id \notin newCorrectIds)
                    deckAll == IF isWrongOnlyMode
                               THEN SelectSeq(unanswered,
                                        LAMBDA i : i.id \in wrongIds)
                               ELSE unanswered
                IN  /\ store' = removeInputHistory(
                          [store EXCEPT
                              ![key] = saveCorrectSentence(store[key],
                                                           current.id, now)],
                          current.id)
                    /\ learnedIds' = newCorrectIds
                    /\ timers' = Append(timers,
                          autoAdvance(index, Len(deck), newCorrectIds))
                    /\ shuffledDeck' \in Shuffles(deckAll)
                    /\ index' = 0
                    /\ LET after == sentenceEffects(current, shuffledDeck,
                                        index, shuffledDeck', 0, newCorrectIds,
                                        store', userInput, TRUE, comparison,
                                        <<>>)
                       IN  /\ userInput' = after.userInput
                           /\ showResult' = after.showResult
                           /\ comparisonResult' = after.comparisonResult
                           /\ previousWrongInput' = after.previousWrongInput
           ELSE /\ store' = [saveInputHistory(store, current.id, userInput)
                              EXCEPT !.wrong = saveWrongIds(
                                  loadWrongIds(store.wrong, now).ret
                                      \cup {current.id}, now)]
                /\ showResult' = TRUE
                /\ comparisonResult' = comparison
                /\ UNCHANGED <<learnedIds, timers, shuffledDeck, index,
                               userInput, previousWrongInput>>
    /\ tabs' = IF allCorrect(compareSentences(userInput, current.sentence))
                THEN tabs
                ELSE recordOwn(tabs, current.id)
    /\ masteredAt' =
          IF allCorrect(compareSentences(userInput, current.sentence))
          THEN recordMastered(masteredAt, masteryKey(isWrongOnlyMode),
                              current.id, now)
          ELSE masteredAt
    /\ last' = [Op("checkAnswer") EXCEPT
                   !.correct = allCorrect(compareSentences(userInput,
                                                           current.sentence))]
    /\ UNCHANGED <<category, now, page, wrongItems, items, isCorrect,
                   isWrongOnlyMode, wrongIds>>

\* SentenceCheckPage.checkAnswer, whatever the screen shows:
\* if (!current) return
Sentence_checkAnswerCall ==
    /\ page = "check"
    /\ category = "sentences"
    /\ IF current = undefined
       THEN /\ last' = Op("checkAnswer")
            /\ UNCHANGED <<category, tabs, masteredAt, now, store, page, wrongItems>>
            /\ UNCHANGED session
       ELSE Sentence_checkAnswerOn

\* the Check button and Enter in the field (both gone while the result
\* shows and on the completion screen)
Sentence_checkAnswer ==
    /\ current # undefined
    /\ ~showResult
    /\ Sentence_checkAnswerCall

\* the oldest pending auto-advance fires
Sentence_timeout ==
    /\ page = "check"
    /\ category = "sentences"
    /\ timers # <<>>
    /\ timers' = Tail(timers)
    /\ store' = store
    /\ IF Head(timers).goNext
       THEN sentenceCommit([index |-> Head(timers).nextIndex,
                            userInput |-> userInput,
                            showResult |-> showResult,
                            comparisonResult |-> comparisonResult])
       ELSE /\ showResult' = FALSE
            /\ userInput' = <<>>
            /\ comparisonResult' = <<>>
            /\ UNCHANGED <<index, previousWrongInput>>
    /\ last' = Op("timeout")
    /\ UNCHANGED <<category, tabs, masteredAt, now, page, wrongItems, items, shuffledDeck,
                   learnedIds, isCorrect, isWrongOnlyMode, wrongIds>>

----------------------------------------------------------------------------
(* The check page of the other tab, in normal mode *)

\* the mastery write of a correct answer there: CheckPage.nextQuestion
\* stores its own learnedIds, saveCorrectSentence stores what it reads back
tabCorrect ==
    /\ tabs.open
    /\ Cardinality(tabs.learned) < MaxTabSaves
    /\ page = "check"
    /\ \E k \in IdsOf(store.items) \ tabs.learned :
          /\ store' = IF category = "sentences"
                      THEN removeInputHistory(
                               [store EXCEPT !.check =
                                   saveCorrectSentence(store.check, k, now)], k)
                      ELSE [store EXCEPT !.check =
                               Timestamped(tabs.learned \cup {k}, now)]
          /\ tabs' = [tabs EXCEPT !.learned = @ \cup {k}]
          /\ masteredAt' = recordMastered(masteredAt, "check", k, now)
          /\ last' = [Op("tabCorrect") EXCEPT !.id = k]
    /\ UNCHANGED <<category, now, page, wrongItems>>
    /\ UNCHANGED session

\* the wrong-key write of a wrong answer there
tabWrong ==
    /\ tabs.open
    /\ Cardinality(tabs.wrong) < MaxTabSaves
    /\ page = "check"
    /\ \E k \in IdsOf(store.items) \ tabs.learned :
          /\ store' = IF category = "sentences"
                      THEN [saveInputHistory(store, k, <<"z">>)
                               EXCEPT !.wrong = saveWrongIds(
                                   loadWrongIds(store.wrong, now).ret
                                       \cup {k}, now)]
                      ELSE [store EXCEPT
                               !.wrong = checkPageSaveWrong(store.wrong, k)]
          /\ tabs' = [tabs EXCEPT !.wrong = @ \cup {k}]
          /\ last' = [Op("tabWrong") EXCEPT !.id = k]
    /\ UNCHANGED <<category, masteredAt, now, page, wrongItems>>
    /\ UNCHANGED session

----------------------------------------------------------------------------
(* The list pages' CSV import *)

\* the rows of an imported file: pool rows, as stored or with the answer
\* column edited
ImportRows ==
    {ItemOf(category, k) : k \in 1 .. MaxImportDeck}
        \cup {EditedItemOf(category, k) : k \in 1 .. MaxImportDeck}

\* files of no row, of one row, and of two rows as first written
ImportFiles ==
    {<<>>} \cup {<<r>> : r \in ImportRows}
        \cup {<<ItemOf(category, k1), ItemOf(category, k2)>> :
                 k1 \in 1 .. MaxImportDeck, k2 \in 1 .. MaxImportDeck}

\* ListPage.handleImportChange clears the check and wrong records of the
\* scope when the merged deck differs; SentenceListPage.handleImportChange
\* clears nothing
importClear(cat, st, prev, mergedItems) ==
    IF cat # "sentences" /\ areItemsDifferent(prev, mergedItems)
    THEN clearWrongItemsStorage(clearCheckStorage(clearFlashcardStorage(st)))
    ELSE st

\* handleImportChange, with the save effect that follows setItems
handleImportChange ==
    /\ page = "list"
    /\ \E newItems \in ImportFiles :
          LET mergedItems == mergeById(<<>>, store.items \o newItems)
          IN  /\ store' = [importClear(category, store, store.items,
                                       mergedItems)
                              EXCEPT !.items = mergedItems]
              /\ last' = [Op("handleImportChange") EXCEPT
                             !.input = newItems, !.len = Len(store.items)]
    /\ UNCHANGED <<category, tabs, masteredAt, now, page, wrongItems>>
    /\ UNCHANGED session

\* EditItemModal's onSave: the item of the saved id is replaced in place
onSave ==
    /\ page = "list"
    /\ category # "sentences"
    /\ \E updated \in ImportRows :
          store' = [store EXCEPT !.items =
                       [i \in 1 .. Len(store.items) |->
                           IF store.items[i].id = updated.id THEN updated
                           ELSE store.items[i]]]
    /\ last' = Op("onSave")
    /\ UNCHANGED <<category, tabs, masteredAt, now, page, wrongItems>>
    /\ UNCHANGED session

removeItem ==
    /\ page = "list"
    /\ \E id \in IdsOf(store.items) :
          /\ store' = [store EXCEPT !.items =
                          SelectSeq(store.items, LAMBDA i : i.id # id)]
          /\ last' = [Op("removeItem") EXCEPT !.id = id]
    /\ UNCHANGED <<category, tabs, masteredAt, now, page, wrongItems>>
    /\ UNCHANGED session

\* handleClearAll: nothing when the confirmation is declined; ListPage also
\* clears the check and wrong records, SentenceListPage only the items
handleClearAll ==
    /\ page = "list"
    /\ \E confirmed \in BOOLEAN :
          store' = IF ~confirmed THEN store
                   ELSE IF category = "sentences"
                        THEN [store EXCEPT !.items = <<>>]
                        ELSE [clearWrongItemsStorage(clearCheckStorage(
                                  clearFlashcardStorage(store)))
                                 EXCEPT !.items = <<>>]
    /\ last' = Op("handleClearAll")
    /\ UNCHANGED <<category, tabs, masteredAt, now, page, wrongItems>>
    /\ UNCHANGED session

----------------------------------------------------------------------------
(* Cards *)

ScopeKeys ==
    {"items", "check", "checkWrong", "wrongOnly", "wrong", "history",
     "flashcards"}

\* the storage as the list page of the other card addresses it
otherCard(st) ==
    [key \in ScopeKeys \cup {"other"} |->
        IF key = "other" THEN [k \in ScopeKeys |-> st[k]] ELSE st.other[key]]

\* the list page of the other card opened from the category page: the page
\* mounts, its initialiser loads the stored items and the save effect
\* writes them back
openCard ==
    /\ page = "list"
    /\ store' = otherCard(store)
    /\ last' = Op("openCard")
    /\ UNCHANGED <<category, tabs, masteredAt, now, page, wrongItems>>
    /\ UNCHANGED session

\* the route changes to the other card while the list page stays mounted:
\* the save effect (deps [items, cardId]) runs with the items of the card
\* left and the cardId of the card entered, then the load effect reads them
switchCard ==
    /\ page = "list"
    /\ store' = otherCard([store EXCEPT !.other.items = store.items])
    /\ last' = Op("switchCard")
    /\ UNCHANGED <<category, tabs, masteredAt, now, page, wrongItems>>
    /\ UNCHANGED session

----------------------------------------------------------------------------
(* FlashcardModal, over the list page of vocab and grammar *)

\* const deck = useMemo(() => shuffledDeck, [shuffledDeck])
flashDeckOf(sd, learned) == sd

flashDeck == flashDeckOf(shuffledDeck, learnedIds)

flashCurrent ==
    IF index < Len(flashDeck) THEN flashDeck[index + 1] ELSE undefined

\* the Flashcard button: the modal mounts, its learnedIds initialiser reads
\* the record and the deck is shuffled
ListFlash ==
    /\ page = "list"
    /\ category # "sentences"
    /\ page' = "flash"
    /\ LET loaded == loadLearned(store.flashcards, now)
           deckAll == SelectSeq(store.items,
                         LAMBDA i : i.korean # <<>> \/ i.vietnamese # <<>>
                                    \/ i.english # <<>>)
       IN  /\ store' = [store EXCEPT !.flashcards = loaded.rec]
           /\ learnedIds' = loaded.ret
           /\ items' = store.items
           /\ shuffledDeck' \in Shuffles(deckAll)
           /\ last' = [Op("ListFlash") EXCEPT !.mastery = store.flashcards,
                                              !.ret = loaded.ret]
    /\ index' = 0
    /\ UNCHANGED <<category, tabs, masteredAt, now, wrongItems, userInput, showResult,
                   isCorrect, comparisonResult, previousWrongInput,
                   isWrongOnlyMode, wrongIds, timers>>

\* the known button, shown on a card that is not marked
markKnown ==
    /\ page = "flash"
    /\ flashCurrent # undefined
    /\ flashCurrent.id \notin learnedIds
    /\ learnedIds' = learnedIds \cup {flashCurrent.id}
    /\ store' = [store EXCEPT !.flashcards = Timestamped(learnedIds', now)]
    /\ index' = IF index >= Len(flashDeck) - 1 THEN 0 ELSE index
    /\ last' = [Op("markKnown") EXCEPT !.id = flashCurrent.id,
                                       !.len = Len(flashDeck)]
    /\ UNCHANGED <<category, tabs, masteredAt, now, page, wrongItems, items, shuffledDeck,
                   userInput, showResult, isCorrect, comparisonResult,
                   previousWrongInput, isWrongOnlyMode, wrongIds, timers>>

\* the remove-mark button, shown on a card that is marked
unmarkKnown ==
    /\ page = "flash"
    /\ flashCurrent # undefined
    /\ flashCurrent.id \in learnedIds
    /\ learnedIds' = learnedIds \ {flashCurrent.id}
    /\ store' = [store EXCEPT !.flashcards = Timestamped(learnedIds', now)]
    /\ last' = [Op("unmarkKnown") EXCEPT !.id = flashCurrent.id,
                                         !.len = Len(flashDeck)]
    /\ UNCHANGED <<category, tabs, masteredAt, now, page, wrongItems, items, shuffledDeck,
                   index, userInput, showResult, isCorrect, comparisonResult,
                   previousWrongInput, isWrongOnlyMode, wrongIds, timers>>

\* the Next button (disabled on a deck of at most one card) and the
\* not-known button (markUnknown calls goNext)
Flash_goNext ==
    /\ page = "flash"
    /\ flashCurrent # undefined
    /\ Len(flashDeck) > 1 \/ flashCurrent.id \notin learnedIds
    /\ index' = (index + 1) % Len(flashDeck)
    /\ last' = [Op("goNext") EXCEPT !.id = flashCurrent.id,
                                    !.len = Len(flashDeck)]
    /\ UNCHANGED <<category, tabs, masteredAt, now, store, page, wrongItems, items,
                   shuffledDeck, learnedIds, userInput, showResult, isCorrect,
                   comparisonResult, previousWrongInput, isWrongOnlyMode,
                   wrongIds, timers>>

\* the Previous button (disabled on a deck of at most one card)
Flash_goPrev ==
    /\ page = "flash"
    /\ flashCurrent # undefined
    /\ Len(flashDeck) > 1
    /\ index' = (index - 1 + Len(flashDeck)) % Len(flashDeck)
    /\ last' = [Op("goPrev") EXCEPT !.id = flashCurrent.id,
                                    !.len = Len(flashDeck)]
    /\ UNCHANGED <<category, tabs, masteredAt, now, store, page, wrongItems, items,
                   shuffledDeck, learnedIds, userInput, showResult, isCorrect,
                   comparisonResult, previousWrongInput, isWrongOnlyMode,
                   wrongIds, timers>>

\* the close button (nothing is rendered, the button neither, on an empty
\* deck)
onClose ==
    /\ page = "flash"
    /\ flashCurrent # undefined
    /\ page' = "list"
    /\ Unmounted
    /\ last' = Op("onClose")
    /\ UNCHANGED <<category, tabs, masteredAt, now, store, wrongItems>>

----------------------------------------------------------------------------
(* Time *)

\* the instants at which operations happen: the first milliseconds, and the
\* milliseconds from 8 hours after the first one
Instants ==
    {1 + k : k \in 0 .. MaxSlack}
        \cup {1 + EIGHT_HOURS_MS + k : k \in 0 .. MaxSlack}

Tick ==
    /\ \E t \in Instants :
          /\ t > now
          /\ now' = t
    /\ last' = Op("Tick")
    /\ UNCHANGED <<category, tabs, masteredAt, store, page, wrongItems>>
    /\ UNCHANGED session

----------------------------------------------------------------------------
(* Specifications *)

PoolDeck(cat, n) == [k \in 1 .. n |-> ItemOf(cat, k)]

\* the keys of another card of the category
OtherScope(deckItems) ==
    [items |-> deckItems, check |-> Absent, checkWrong |-> Absent,
     wrongOnly |-> FALSE, wrong |-> Absent,
     history |-> [k \in Ids |-> <<>>], flashcards |-> Absent]

EmptyStore(deckItems) ==
    [items |-> deckItems, check |-> Absent, checkWrong |-> Absent,
     wrongOnly |-> FALSE, wrong |-> Absent,
     history |-> [k \in Ids |-> <<>>], flashcards |-> Absent,
     other |-> OtherScope(<<>>)]

InitSession ==
    /\ items = <<>>
    /\ shuffledDeck = <<>>
    /\ index = 0
    /\ learnedIds = {}
    /\ userInput = <<>>
    /\ showResult = FALSE
    /\ isCorrect = FALSE
    /\ comparisonResult = <<>>
    /\ previousWrongInput = <<>>
    /\ isWrongOnlyMode = FALSE
    /\ wrongIds = {}
    /\ timers = <<>>

Start ==
    [op |-> "start", id |-> 0, len |-> 0, index |-> 0, input |-> <<>>,
     answered |-> FALSE, correct |-> FALSE, mastery |-> Absent,
     wrong |-> Absent, ret |-> {}]

Init ==
    /\ category \in Categories
    /\ tabs = NoTabs
    /\ now = 1
    /\ \E n \in 0 .. DeckBound(category) :
          store = EmptyStore(PoolDeck(category, n))
    /\ page = "list"
    /\ wrongItems = {}
    /\ masteredAt = MasteredAtOf(store)
    /\ InitSession
    /\ last = Start

Next ==
    \/ ListCheck
    \/ ListWrong
    \/ handleCheck
    \/ WrongBack
    \/ CheckBack
    \/ setUserInput
    \/ CheckPage_checkAnswer
    \/ CheckPage_goNext
    \/ CheckPage_goPrev
    \/ nextQuestion
    \/ Sentence_checkAnswer
    \/ Sentence_goNext
    \/ Sentence_goPrev
    \/ Sentence_timeout

Spec == Init /\ [][Next]_vars

\* The ledger: the records that answers leave behind, read back by the
\* pages that mount while time passes
MasteryRecords(deckItems) ==
    {Absent} \cup {Timestamped(S, 1) : S \in SUBSET IdsOf(deckItems) \ {{}}}

WrongRecords(deckItems) ==
    {Absent}
        \cup {LegacyArray(S) : S \in SUBSET IdsOf(deckItems) \ {{}}}
        \cup {Timestamped(S, 1) : S \in SUBSET IdsOf(deckItems) \ {{}}}

RecordedStores(deckItems) ==
    {[items |-> deckItems, check |-> c, checkWrong |-> cw, wrongOnly |-> f,
      wrong |-> w, history |-> [k \in Ids |-> <<>>],
      flashcards |-> Absent, other |-> OtherScope(<<>>)] :
        c \in MasteryRecords(deckItems), cw \in MasteryRecords(deckItems),
        f \in BOOLEAN, w \in WrongRecords(deckItems)}

InitLedger ==
    /\ category \in Categories
    /\ tabs = NoTabs
    /\ now = 1
    /\ \E n \in 0 .. MaxLedgerDeck :
          store \in RecordedStores(PoolDeck(category, n))
    /\ page = "list"
    /\ wrongItems = {}
    /\ masteredAt = MasteredAtOf(store)
    /\ InitSession
    /\ last = Start

NextLedger ==
    \/ ListCheck
    \/ ListWrong
    \/ handleCheck
    \/ WrongBack
    \/ CheckBack
    \/ Tick

SpecLedger == InitLedger /\ [][NextLedger]_vars

\* The ledger with records that no version of the program wrote: values
\* that do not parse and objects of another shape
MalformedRecords(deckItems) ==
    {Invalid, NoSavedAt(IdsOf(deckItems)), NoIds(1)}

MalformedStores(deckItems) ==
    {[items |-> deckItems, check |-> c, checkWrong |-> cw, wrongOnly |-> f,
      wrong |-> w, history |-> [k \in Ids |-> <<>>],
      flashcards |-> Absent, other |-> OtherScope(<<>>)] :
        c \in MasteryRecords(deckItems) \cup MalformedRecords(deckItems),
        cw \in {Absent} \cup MalformedRecords(deckItems),
        f \in BOOLEAN,
        w \in WrongRecords(deckItems) \cup MalformedRecords(deckItems)}

InitMalformed ==
    /\ category \in Categories
    /\ tabs = NoTabs
    /\ now = 1
    /\ \E n \in 0 .. MaxLedgerDeck :
          store \in MalformedStores(PoolDeck(category, n))
    /\ page = "list"
    /\ wrongItems = {}
    /\ masteredAt = MasteredAtOf(store)
    /\ InitSession
    /\ last = Start

SpecMalformed == InitMalformed /\ [][NextLedger]_vars

\* The list pages' import over the records that answers leave behind
InitImport ==
    /\ category \in Categories
    /\ tabs = NoTabs
    /\ now = 1
    /\ \E n \in 0 .. MaxImportDeck :
          store \in RecordedStores(PoolDeck(category, n))
    /\ page = "list"
    /\ wrongItems = {}
    /\ masteredAt = MasteredAtOf(store)
    /\ InitSession
    /\ last = Start

NextImport == handleImportChange

SpecImport == InitImport /\ [][NextImport]_vars

\* Two cards of a category: the list page's operations and moving between
\* the cards
EditedDeck(cat, n) == [k \in 1 .. n |-> EditedItemOf(cat, k)]

InitCards ==
    /\ category \in Categories
    /\ tabs = NoTabs
    /\ now = 1
    /\ \E n \in 0 .. MaxCardDeck, m \in 0 .. MaxCardDeck :
          store = [EmptyStore(PoolDeck(category, n))
                      EXCEPT !.other = OtherScope(EditedDeck(category, m))]
    /\ page = "list"
    /\ wrongItems = {}
    /\ masteredAt = MasteredAtOf(store)
    /\ InitSession
    /\ last = Start

NextCards ==
    \/ onSave
    \/ removeItem
    \/ handleClearAll
    \/ openCard
    \/ switchCard

SpecCards == InitCards /\ [][NextCards]_vars

\* One card: imports, edits and deletions on the list page
NextEdits ==
    \/ handleImportChange
    \/ onSave
    \/ removeItem
    \/ handleClearAll

SpecEdits == Init /\ [][NextEdits]_vars

\* The handlers of the check pages called in any state of the page, not
\* only where a button or a key reaches them
NextCalls ==
    \/ ListCheck
    \/ setUserInput
    \/ CheckPage_checkAnswerCall
    \/ CheckPage_goNextCall
    \/ CheckPage_goPrevCall
    \/ nextQuestion
    \/ Sentence_checkAnswerCall
    \/ Sentence_goNextCall
    \/ Sentence_goPrevCall
    \/ Sentence_timeout

SpecCalls == Init /\ [][NextCalls]_vars

\* The flashcard modal opened, used and closed while time passes
InitFlash ==
    /\ category \in {"vocab", "grammar"}
    /\ tabs = NoTabs
    /\ now = 1
    /\ \E n \in 0 .. MaxFlashDeck :
          store = EmptyStore(PoolDeck(category, n))
    /\ page = "list"
    /\ wrongItems = {}
    /\ masteredAt = MasteredAtOf(store)
    /\ InitSession
    /\ last = Start

NextFlash ==
    \/ ListFlash
    \/ markKnown
    \/ unmarkKnown
    \/ Flash_goNext
    \/ Flash_goPrev
    \/ onClose
    \/ Tick

SpecFlash == InitFlash /\ [][NextFlash]_vars

\* Judging: a check page mounted on a one-item deck whose answer column
\* holds any text (parseCSV stores the cell as it is), with any text typed
\* into the answer field, and the submit
Alphabet == {"a", "A", "b", " ", "."}

Texts == UNION {[1 .. n -> Alphabet] : n \in 0 .. MaxText}

ItemWith(cat, k, text) ==
    IF cat = "sentences" THEN SentenceItem(k, text) ELSE StudyItem(k, text)

InitAnswers ==
    /\ category \in Categories
    /\ tabs = NoTabs
    /\ now = 1
    /\ \E text \in Texts, previousInput \in {<<>>, <<"z">>} :
          /\ category = "sentences" => text # <<>>
          /\ category # "sentences" => previousInput = <<>>
          /\ store = [EmptyStore(<<ItemWith(category, 1, text)>>)
                         EXCEPT !.history[1] = previousInput]
    /\ page = "check"
    /\ wrongItems = {}
    /\ masteredAt = MasteredAtOf(store)
    /\ items = store.items
    /\ shuffledDeck = store.items
    /\ index = 0
    /\ learnedIds = {}
    /\ userInput \in Texts
    /\ showResult = FALSE
    /\ isCorrect = FALSE
    /\ comparisonResult = <<>>
    /\ previousWrongInput = IF category = "sentences"
                            THEN previousInputOf(store, store.items[1])
                            ELSE <<>>
    /\ isWrongOnlyMode = FALSE
    /\ wrongIds = {}
    /\ timers = <<>>
    /\ last = [Op("setUserInput") EXCEPT !.input = <<>>]

NextAnswers ==
    \/ CheckPage_checkAnswer
    \/ Sentence_checkAnswer

SpecAnswers == InitAnswers /\ [][NextAnswers]_vars

\* Answering: one session from the list page's check button, answered and
\* advanced to its end
InitOrder ==
    /\ category \in Categories
    /\ tabs = NoTabs
    /\ now = 1
    /\ \E n \in 0 .. MaxOrderDeck :
          store = EmptyStore(PoolDeck(category, n))
    /\ page = "list"
    /\ wrongItems = {}
    /\ masteredAt = MasteredAtOf(store)
    /\ InitSession
    /\ last = Start

NextOrder ==
    \/ ListCheck
    \/ setUserInput
    \/ CheckPage_checkAnswer
    \/ nextQuestion
    \/ Sentence_checkAnswer
    \/ Sentence_goNext
    \/ Sentence_timeout

SpecOrder == InitOrder /\ [][NextOrder]_vars

\* Two tabs answering on one scope
InitTabs ==
    /\ category \in Categories
    /\ tabs = [NoTabs EXCEPT !.open = TRUE]
    /\ now = 1
    /\ \E n \in 0 .. MaxTabDeck :
          store = EmptyStore(PoolDeck(category, n))
    /\ page = "list"
    /\ wrongItems = {}
    /\ masteredAt = MasteredAtOf(store)
    /\ InitSession
    /\ last = Start

NextTabs ==
    \/ ListCheck
    \/ setUserInput
    \/ CheckPage_checkAnswer
    \/ nextQuestion
    \/ Sentence_checkAnswer
    \/ Sentence_goNext
    \/ Sentence_timeout
    \/ tabCorrect
    \/ tabWrong

SpecTabs == InitTabs /\ [][NextTabs]_vars

\* Sessions opened, answered and left while time passes
InitAging ==
    /\ category \in Categories
    /\ tabs = NoTabs
    /\ now = 1
    /\ \E n \in 0 .. MaxAgingDeck :
          store = EmptyStore(PoolDeck(category, n))
    /\ page = "list"
    /\ wrongItems = {}
    /\ masteredAt = MasteredAtOf(store)
    /\ InitSession
    /\ last = Start

NextAging ==
    \/ ListCheck
    \/ CheckBack
    \/ setUserInput
    \/ CheckPage_checkAnswer
    \/ nextQuestion
    \/ Sentence_checkAnswer
    \/ Sentence_timeout
    \/ Tick

SpecAging == InitAging /\ [][NextAging]_vars

\* Vocabulary and grammar sessions between deletions on the list page
NextProgress ==
    \/ ListCheck
    \/ CheckBack
    \/ setUserInput
    \/ CheckPage_checkAnswer
    \/ nextQuestion
    \/ removeItem

SpecProgress == InitFlash /\ [][NextProgress]_vars

----------------------------------------------------------------------------
(* Properties *)

\* advance: nextQuestion of CheckPage, goNext of SentenceCheckPage
Advanced ==
    /\ page = "check"
    /\ \/ last.op = "nextQuestion"
       \/ category = "sentences" /\ last.op = "goNext"

\* the ids a persisted record holds
PersistedIds(rec) == rec.ids

Mounted == last.op \in {"ListCheck", "handleCheck"}

\* C1: after an incorrect answer on a filtered deck of more than one item
\* and the advance, the item presented differs from the one answered.
RequeuePresentsAnotherItem ==
    (Advanced /\ last.answered /\ ~last.correct /\ last.len > 1)
        => current.id # last.id

\* C2: right after checkAnswer judges the item correct, its id is in the
\* persisted mastery record of the active scope and mode.
CorrectAnswerPersistsMastery ==
    (last.op = "checkAnswer" /\ last.correct)
        => last.id \in PersistedIds(store[masteryKey(isWrongOnlyMode)])

\* C3: right after checkAnswer judges the item incorrect, its id is in the
\* persisted wrong record of the scope, whatever the record held before.
WrongAnswerPersistsWrong ==
    (last.op = "checkAnswer" /\ ~last.correct)
        => last.id \in PersistedIds(store.wrong)

\* the ids of the deck items that can be drilled
drillableIds(cat, deckItems) ==
    {deckItems[i].id : i \in
        {j \in 1 .. Len(deckItems) :
            IF cat = "sentences" THEN deckItems[j].sentence # <<>>
            ELSE \/ deckItems[j].korean # <<>>
                 \/ deckItems[j].vietnamese # <<>>
                 \/ deckItems[j].english # <<>>}}

\* C4: a session entered from the wrong-items page drills exactly the
\* drillable deck items that are in the wrong record and not in the
\* wrong-only mastery record.
WrongOnlyDeckIsWrongRecord ==
    last.op = "handleCheck"
        => IdsOf(deck) = (drillableIds(category, store.items)
                             \cap PersistedIds(store.wrong))
                             \ PersistedIds(store.checkWrong)

\* C5: when the only item of the filtered deck was answered incorrectly,
\* the advance presents the same item again, input cleared, no result
\* shown, and the filtered deck still has one item.
SingleItemWrongAnswer ==
    (Advanced /\ last.answered /\ ~last.correct /\ last.len = 1)
        => /\ current.id = last.id
           /\ ~showResult
           /\ userInput = <<>>
           /\ Len(deck) = 1

SingleItemWrongAnswerWitness ==
    /\ Advanced /\ last.answered /\ ~last.correct /\ last.len = 1
    /\ current.id = last.id
    /\ store.wrong # Absent

\* C6: mounting a check page on a mastery record saved at most 8 hours ago
\* loads its ids and leaves the key; on an older record it loads no id and
\* removes the key.
MasteryExpiresAfterEightHours ==
    (Mounted /\ last.mastery.t = "object")
        => IF now - last.mastery.savedAt <= EIGHT_HOURS_MS
           THEN /\ learnedIds = last.mastery.ids
                /\ store[masteryKey(isWrongOnlyMode)] = last.mastery
           ELSE /\ learnedIds = {}
                /\ store[masteryKey(isWrongOnlyMode)] = Absent

MasteryExpiresWitness ==
    /\ Mounted
    /\ last.mastery.t = "object"
    /\ now - last.mastery.savedAt = EIGHT_HOURS_MS + 1
    /\ learnedIds = {}
    /\ store[masteryKey(isWrongOnlyMode)] = Absent

\* C7: the wrong-items page and the check pages in wrong-only mode read a
\* timestamped wrong record alike: its ids when it is at most 8 hours old,
\* no id and the key removed when it is older.
WrongExpiryInEveryReader ==
    /\ (last.op = "ListWrong" /\ last.wrong.t = "object")
          => IF now - last.wrong.savedAt <= EIGHT_HOURS_MS
             THEN last.ret = last.wrong.ids /\ store.wrong = last.wrong
             ELSE last.ret = {} /\ store.wrong = Absent
    /\ (last.op = "handleCheck" /\ last.wrong.t = "object")
          => IF now - last.wrong.savedAt <= EIGHT_HOURS_MS
             THEN wrongIds = last.wrong.ids /\ store.wrong = last.wrong
             ELSE wrongIds = {} /\ store.wrong = Absent

\* C8: an import whose merged deck differs from the current one deletes
\* the mastery records and the wrong record of the scope; an import that
\* changes nothing leaves them as they are.
ImportInvalidatesRecords ==
    [][last'.op = "handleImportChange"
          => IF areItemsDifferent(store.items, store'.items)
             THEN /\ store'.check = Absent
                  /\ store'.checkWrong = Absent
                  /\ store'.wrong = Absent
             ELSE /\ store'.check = store.check
                  /\ store'.checkWrong = store.checkWrong
                  /\ store'.wrong = store.wrong]_vars

\* C9: loadWrongIds on a bare array returns its ids and stores them with
\* the time of the load; loading the stored value again within 8 hours
\* returns the same ids and leaves the stored value.
LegacyMigrationRoundTrip ==
    (last.op = "ListWrong" /\ last.wrong.t = "array")
        => /\ last.ret = last.wrong.ids
           /\ store.wrong = Timestamped(last.wrong.ids, now)
           /\ \A t \in Instants :
                 (t >= now /\ t - now <= EIGHT_HOURS_MS)
                     => loadWrongIds(store.wrong, t)
                            = [ret |-> last.wrong.ids, rec |-> store.wrong]

LegacyMigrationWitness ==
    /\ last.op = "ListWrong"
    /\ last.wrong.t = "array"
    /\ last.ret # {}
    /\ store.wrong.t = "object"

\* C10: an advance from the answered state leaves the session presenting,
\* with no result shown and the input empty, or complete.
AdvanceLeavesAnswered ==
    (Advanced /\ last.answered)
        => \/ current = undefined
           \/ ~showResult /\ userInput = <<>>

\* the quiz operations: submit, advance, manual navigation, auto-advance
QuizOps == {"checkAnswer", "nextQuestion", "goNext", "goPrev", "timeout"}

\* C11: after every operation of a mounted check page the cursor is below
\* the length of the filtered deck, or is 0 when the filtered deck is empty.
CursorWithinDeck ==
    page = "check"
        => IF Len(deck) = 0 THEN index = 0 ELSE index \in 0 .. Len(deck) - 1

\* a correct answer on the last item but one: goNext() steps to the old last
\* position, the deck shrinks, and the bounds effect brings the cursor to 0
CursorWithinDeckWitness ==
    /\ page = "check"
    /\ last.op = "nextQuestion"
    /\ last.correct
    /\ last.len > 1
    /\ last.index = last.len - 2
    /\ Len(deck) = last.len - 1
    /\ index = 0

\* the ids of S in the order in which dk holds them
OrderOf(dk, S) ==
    LET kept == SelectSeq(dk, LAMBDA i : i.id \in S)
    IN  [k \in 1 .. Len(kept) |-> kept[k].id]

\* C12: a submit or an advance never re-permutes the session deck: the
\* remaining items other than the one just answered keep their relative
\* order.
AnswerKeepsDeckOrder ==
    [][(page = "check" /\ page' = "check" /\ last'.op \in QuizOps)
          => LET others == (IdsOf(deck) \cap IdsOf(deck')) \ {current.id}
             IN  OrderOf(deck', others) = OrderOf(deck, others)]_vars

\* the cursor that cyclic navigation reaches from i on a deck of n items
CyclicTarget(op, i, n) ==
    IF op = "goNext" THEN (i + 1) % n ELSE (i - 1 + n) % n

VocabularyCheckNormalisesBoth ==
    (last.op = "checkAnswer" /\ category # "sentences")
        => IF last.input = <<>> /\ current.korean # <<>>
           THEN ~isCorrect
           ELSE isCorrect <=> toLowerCase(trim(last.input))
                                = toLowerCase(trim(current.korean))

\* the tokens of a text: its maximal runs of characters that are neither
\* whitespace nor one of . , ! ? ; :
isSeparator(c) == c \in {" ", ".", ",", "!", "?", ";", ":"}

TokenStarts(s) ==
    {i \in 1 .. Len(s) : ~isSeparator(s[i]) /\ (i = 1 \/ isSeparator(s[i - 1]))}

TokenEnd(s, i) ==
    CHOOSE j \in i .. Len(s) :
        /\ \A k \in i .. j : ~isSeparator(s[k])
        /\ j = Len(s) \/ isSeparator(s[j + 1])

RECURSIVE TokensFrom(_, _)
TokensFrom(s, starts) ==
    IF starts = {} THEN <<>>
    ELSE LET i == CHOOSE m \in starts : \A n \in starts : m <= n
         IN  <<SubSeq(s, i, TokenEnd(s, i))>> \o TokensFrom(s, starts \ {i})

Tokens(s) == TokensFrom(s, TokenStarts(s))

\* the sentence of the item that was presented to the last operation
SentenceOfLast == (CHOOSE i \in Range(items) : i.id = last.id).sentence

Accepted == last.id \in learnedIds /\ last.id \in store.check.ids

\* C16: a submitted sentence is accepted exactly when the comparison has at
\* least one position and every position is correct; the sentence itself
\* is accepted when it has a token, the empty input never is.
SentenceAcceptedIffAllCorrect ==
    (last.op = "checkAnswer" /\ category = "sentences")
        => /\ Accepted
                <=> /\ Len(comparisonResult) > 0
                    /\ \A i \in 1 .. Len(comparisonResult) :
                          comparisonResult[i].isCorrect
           /\ (last.input = SentenceOfLast /\ Tokens(SentenceOfLast) # <<>>)
                => Accepted
           /\ last.input = <<>> => ~Accepted
           /\ ~Accepted => (learnedIds = {} /\ store.check = Absent)

\* a sentence of two words, typed as it is stored, was accepted
SentenceAcceptedWitness ==
    /\ last.op = "checkAnswer"
    /\ category = "sentences"
    /\ last.input = SentenceOfLast
    /\ Len(Tokens(SentenceOfLast)) = 2
    /\ Accepted

\* C17: when the user has navigated with goNext or goPrev while an
\* auto-advance is pending, the firing of that auto-advance neither moves
\* the cursor nor changes any other session state.
NavigationCancelsAutoAdvance ==
    [][(page = "check" /\ last.op \in {"goNext", "goPrev"} /\ timers # <<>>
          /\ last'.op = "timeout")
          => UNCHANGED <<items, shuffledDeck, index, learnedIds, userInput,
                         showResult, isCorrect, comparisonResult,
                         previousWrongInput, isWrongOnlyMode, wrongIds>>]_vars

\* the completion screen: CheckPage renders it for an empty deck,
\* SentenceCheckPage when there is no current item
Complete == IF category = "sentences" THEN current = undefined ELSE Len(deck) = 0

\* C18: on a mounted check page the item presented is not in the mastery
\* set, completion shows exactly when every item of the session deck is
\* mastered, and a page just mounted presents the first unmastered item of
\* its deck.
PresentedItemIsUnmastered ==
    page = "check"
        => /\ ~Complete => (current # undefined /\ current.id \notin learnedIds)
           /\ Complete <=> \A i \in 1 .. Len(shuffledDeck) :
                               shuffledDeck[i].id \in learnedIds
           /\ (Mounted /\ ~Complete)
                => \E i \in 1 .. Len(shuffledDeck) :
                      /\ current = shuffledDeck[i]
                      /\ \A j \in 1 .. i - 1 : shuffledDeck[j].id \in learnedIds

\* an unmastered item is presented while the session deck still holds a
\* mastered one
PresentedItemWitness ==
    /\ page = "check"
    /\ ~Complete
    /\ current.id \notin learnedIds
    /\ \E i \in 1 .. Len(shuffledDeck) : shuffledDeck[i].id \in learnedIds

\* C19: while the wrong record is at most 8 hours old, no quiz operation
\* removes an id from it: the ids persisted after the operation include
\* those persisted before.
WrongRecordOnlyGrows ==
    [][(page = "check" /\ last'.op \in QuizOps
          /\ (store.wrong.t = "object"
                 => now - store.wrong.savedAt <= EIGHT_HOURS_MS))
          => PersistedIds(store.wrong) \subseteq PersistedIds(store'.wrong)]_vars

\* an item recorded as wrong was then answered correctly and mastered, and
\* is still in the wrong record
WrongRecordOnlyGrowsWitness ==
    /\ page = "check"
    /\ last.op \in {"checkAnswer", "nextQuestion"}
    /\ last.correct
    /\ last.id \in learnedIds
    /\ last.id \in PersistedIds(last.wrong)
    /\ last.id \in PersistedIds(store.wrong)

\* C20: a quiz operation in wrong-only mode leaves the mastery record of
\* normal mode as it is, and one in normal mode leaves the mastery record
\* of wrong-only mode as it is.
MasteryModesApart ==
    [][(page = "check" /\ last'.op \in QuizOps)
          => IF isWrongOnlyMode
             THEN store'.check = store.check
             ELSE store'.checkWrong = store.checkWrong]_vars

\* a correct answer in wrong-only mode was recorded in the wrong-only
\* mastery record while normal mode holds a record of its own
MasteryModesApartWitness ==
    /\ page = "check"
    /\ isWrongOnlyMode
    /\ last.op \in {"checkAnswer", "nextQuestion"}
    /\ last.correct
    /\ last.id \in PersistedIds(store.checkWrong)
    /\ last.id \notin PersistedIds(last.mastery)
    /\ store.check # Absent

\* C21: an incorrect sentence submission stores the submitted text as it
\* was typed as the input history of the item, a correct one leaves no
\* input history for it, and neither changes the history of another item.
InputHistoryFollowsSubmission ==
    [][(category = "sentences" /\ last'.op = "checkAnswer")
          => /\ store'.history[current.id]
                  = IF current.id \in learnedIds' THEN <<>> ELSE userInput
             /\ \A k \in Ids \ {current.id} :
                   store'.history[k] = store.history[k]]_vars

\* a padded wrong input is stored as typed
InputHistoryWrongWitness ==
    /\ category = "sentences"
    /\ last.op = "checkAnswer"
    /\ ~last.correct
    /\ last.input # trim(last.input)
    /\ store.history[last.id] = last.input

\* C22: loading a malformed mastery record (on mounting a check page) or a
\* malformed wrong record (on mounting the wrong-items page) returns no id
\* and deletes the storage key.
MalformedRecordIsDeleted ==
    /\ (Mounted /\ last.mastery.t \in {"invalid", "nosavedat", "noids"})
          => /\ learnedIds = {}
             /\ store[masteryKey(isWrongOnlyMode)] = Absent
    /\ (last.op = "ListWrong"
           /\ last.wrong.t \in {"invalid", "nosavedat", "noids"})
          => /\ last.ret = {}
             /\ store.wrong = Absent

\* C23: the item a check page presents has an answer field (korean, or
\* sentence for sentences) that is neither empty nor whitespace only.
PresentedAnswerIsNotBlank ==
    (page = "check" /\ current # undefined)
        => trim(answerOf(category, current)) # <<>>

\* C24: the items stored for a card change only by an import, an edit, a
\* delete or a clear-all made on the list page of that card; a check
\* session and a move of the list page to the other card leave the items
\* stored for both cards as they are.
DeckChangesOnlyByListEdits ==
    [][IF last'.op \in {"openCard", "switchCard"}
       THEN /\ store'.items = store.other.items
            /\ store'.other.items = store.items
       ELSE /\ store'.other.items = store.other.items
            /\ store'.items # store.items
                  => last'.op \in {"handleImportChange", "onSave",
                                   "removeItem", "handleClearAll"}]_vars

\* C25: a save of this tab's check page overwrites the mastery record and
\* the wrong record: an id that only the other tab has recorded is not in
\* the record after the save.
LastWriteWins ==
    [][last'.op \in {"checkAnswer", "nextQuestion"}
          => /\ store'.check # store.check
                   => \A k \in tabs.learned \ learnedIds' :
                         k \notin store'.check.ids
             /\ store'.wrong # store.wrong
                   => \A k \in tabs.wrong \ tabs'.own :
                         k \notin store'.wrong.ids]_vars

\* C26: the ids of the stored deck are unique after every import, edit and
\* deletion; an import puts the file's row in the place of the item of its
\* id, keeps the other items in place, and appends the rows of new ids in
\* the order of the file.
ImportMergesById ==
    [][LET UniqueIds(deckItems) ==
               \A i, j \in 1 .. Len(deckItems) :
                   deckItems[i].id = deckItems[j].id => i = j
           \* the last row of the file with the id
           LastRow(file, id) ==
               file[CHOOSE j \in 1 .. Len(file) :
                       /\ file[j].id = id
                       /\ \A l \in j + 1 .. Len(file) : file[l].id # id]
           \* the rows of the file that bring an id the deck does not have,
           \* each id at its first row
           NewRows(file, prev) ==
               {j \in 1 .. Len(file) :
                   /\ file[j].id \notin IdsOf(prev)
                   /\ \A l \in 1 .. j - 1 : file[l].id # file[j].id}
       IN  /\ UniqueIds(store.items) => UniqueIds(store'.items)
           /\ last'.op = "handleImportChange"
                 => LET file == last'.input
                        prev == store.items
                        next == store'.items
                        new == NewRows(file, prev)
                    IN  /\ Len(next) = Len(prev) + Cardinality(new)
                        /\ \A i \in 1 .. Len(prev) :
                              next[i] = IF prev[i].id \in IdsOf(file)
                                        THEN LastRow(file, prev[i].id)
                                        ELSE prev[i]
                        /\ \A j \in new :
                              next[Len(prev)
                                     + Cardinality({l \in new : l <= j})]
                                  = LastRow(file, file[j].id)]_vars

\* a file that brings a new id and then an edit of the only item
ImportMergesWitness ==
    /\ last.op = "handleImportChange"
    /\ last.len = 1
    /\ Len(last.input) = 2
    /\ Len(store.items) = 2
    /\ store.items[1] = last.input[2]
    /\ store.items[2] = last.input[1]

\* C27: checkAnswer, goNext and goPrev called while the check page has no
\* current item return without an error and leave the session state and
\* the stored records as they are.
HandlersTotalWithoutCurrent ==
    [][(page = "check" /\ current = undefined
            /\ last'.op \in {"checkAnswer", "goNext", "goPrev"})
          => /\ UNCHANGED session
             /\ store' = store]_vars

\* a handler called on the completion screen
HandlersTotalWitness ==
    /\ page = "check"
    /\ last.op \in {"checkAnswer", "goNext", "goPrev"}
    /\ last.len = 0
    /\ items # <<>>
    /\ current = undefined

\* C28: the flashcard modal does not present a card whose id is in the
\* record of known cards saved at most 8 hours ago, and it presents every
\* card again once the record is older.
KnownCardHiddenForEightHours ==
    (page = "flash" /\ flashCurrent # undefined)
        => /\ (store.flashcards.t = "object"
                  /\ now - store.flashcards.savedAt <= EIGHT_HOURS_MS)
                 => flashCurrent.id \notin store.flashcards.ids
           /\ (last.op = "ListFlash" /\ last.mastery.t = "object"
                  /\ now - last.mastery.savedAt > EIGHT_HOURS_MS)
                 => /\ IdsOf(flashDeck) = IdsOf(store.items)
                    /\ learnedIds = {}

\* C29: the advance after an incorrect answer on a filtered deck of more
\* than one item leaves the answered item last in the session deck and the
\* other items in their relative order, on CheckPage (nextQuestion) and on
\* SentenceCheckPage (goNext).
WrongItemMovesLast ==
    [][(/\ page = "check"
        /\ last'.answered /\ ~last'.correct /\ last'.len > 1
        /\ \/ last'.op = "nextQuestion"
           \/ category = "sentences" /\ last'.op = "goNext")
          => LET others == IdsOf(shuffledDeck) \ {current.id}
             IN  /\ shuffledDeck'[Len(shuffledDeck')].id = current.id
                 /\ OrderOf(shuffledDeck', others)
                        = OrderOf(shuffledDeck, others)]_vars

\* C30: a check page opened with the check button of the list page is in
\* normal mode, whatever wrong-only sessions came before.
ListCheckStartsNormalMode ==
    (page = "check" /\ last.op = "ListCheck")
        => ~isWrongOnlyMode /\ ~store.wrongOnly

\* C31: a value that a component wrote under the wrong key is read back as
\* the id set it holds by every component that reads the key of the scope
\* (loadWrongIds, and the CheckPage wrongIds memo for vocabulary and
\* grammar), and every component that appends to it can add an id.
WrongRecordFormatsCompatible ==
    store.wrong.t \in {"array", "object"}
        => /\ loadWrongIds(store.wrong, now).ret = PersistedIds(store.wrong)
           /\ \A k \in Ids :
                 k \in PersistedIds(saveWrongIds(
                          loadWrongIds(store.wrong, now).ret \cup {k}, now))
           /\ category # "sentences"
                 => /\ checkPageWrongIds(TRUE, store.wrong)
                        = PersistedIds(store.wrong)
                    /\ \A k \in Ids :
                          k \in PersistedIds(
                                   checkPageSaveWrong(store.wrong, k))

\* C32: every item a check page presents can be answered: a submit of the
\* item's own answer text is judged correct, so that a user who answers
\* each presented item can reach completion.
OwnAnswerIsJudgedCorrect ==
    (last.op = "checkAnswer"
        /\ last.input = answerOf(category,
                            CHOOSE i \in Range(items) : i.id = last.id))
        => last.correct

\* C33: on a filtered deck of N >= 2 items, the step that takes a correctly
\* answered item at cursor i out of the deck (nextQuestion on CheckPage, the
\* correct submit on SentenceCheckPage) presents the item that was at
\* position (i + 1) mod N of the filtered deck before the answer.
CorrectAdvanceSkipsNoItem ==
    [][(/\ page = "check"
        /\ Len(deck) >= 2
        /\ last'.correct
        /\ \/ last'.op = "nextQuestion"
           \/ category = "sentences" /\ last'.op = "checkAnswer")
          => current' = deck[((index + 1) % Len(deck)) + 1]]_vars

\* C34: on the sentence check page the firing of the auto-advance timer
\* leaves a presented item presented, with the text typed for it and the
\* result of its submit.
AutoAdvanceKeepsPresentedItem ==
    [][(/\ page = "check"
        /\ category = "sentences"
        /\ current # undefined
        /\ last'.op = "timeout")
          => /\ current' = current
             /\ userInput' = userInput
             /\ showResult' = showResult
             /\ comparisonResult' = comparisonResult]_vars

\* C35: a check page that mounts treats an item as mastered only when the
\* last correct answer recorded for it in the mode is at most 8 hours old,
\* whatever other items were answered since.
MasteryLastsEightHoursPerItem ==
    Mounted
        => \A k \in learnedIds :
              /\ masteredAt[masteryKey(isWrongOnlyMode)][k] # 0
              /\ now - masteredAt[masteryKey(isWrongOnlyMode)][k]
                     <= EIGHT_HOURS_MS

\* C36: right after a check page records a correct answer (nextQuestion on
\* CheckPage, the correct submit on SentenceCheckPage), the ids of the
\* persisted mastery record of the active mode are the ids of the session's
\* mastered set, however long the session has been open.
PersistedMasteryIsSessionMastery ==
    (/\ page = "check"
     /\ last.correct
     /\ \/ last.op = "nextQuestion"
        \/ category = "sentences" /\ last.op = "checkAnswer")
        => PersistedIds(store[masteryKey(isWrongOnlyMode)]) = learnedIds

\* C37: on the vocabulary/grammar check page the session deck holds
\* exactly the items of the initial candidate set, each once, after every
\* answer, advance, requeue and manual navigation.
SessionDeckIsCandidateSet ==
    (page = "check" /\ category # "sentences")
        => LET candidates ==
                   {i \in Range(items) :
                       /\ \/ i.korean # <<>>
                          \/ i.vietnamese # <<>>
                          \/ i.english # <<>>
                       /\ isWrongOnlyMode => i.id \in wrongIds}
           IN  /\ Range(shuffledDeck) = candidates
               /\ Len(shuffledDeck) = Cardinality(candidates)

\* a wrong answer was requeued on a deck of three items of which one is
\* mastered
SessionDeckWitness ==
    /\ page = "check"
    /\ category # "sentences"
    /\ last.op = "nextQuestion"
    /\ last.answered
    /\ ~last.correct
    /\ last.len = 2
    /\ learnedIds # {}
    /\ Len(shuffledDeck) = 3
    /\ shuffledDeck[3].id = last.id

\* CheckPage progress counters
totalAll == Len(shuffledDeck)

learned == Cardinality(learnedIds)

\* Math.max(0, totalAll - learned)
notLearned == Max(0, totalAll - learned)

\* C38: on the vocabulary/grammar check page the reported count of items
\* not yet learned is the number of items left in the filtered deck, and
\* the reported learned count is at most the total of the session, also
\* when the mastery record holds ids of items no longer in the deck.
ProgressCountersConsistent ==
    (page = "check" /\ category # "sentences")
        => /\ notLearned = Len(deck)
           /\ learned <= totalAll

====
